---- MODULE Spec2Model ----
(***************************************************************************)
(* Model of download_sentinel1_grd (src/sentinel1_agnet.py): one           *)
(* invocation from its arguments to its return value or exception.  The    *)
(* catalog, the asset servers and the file system are the environment.     *)
(* Instants are whole seconds since an epoch; a date is a day number.      *)
(***************************************************************************)
EXTENDS Integers, Sequences, FiniteSets, TLC

VARIABLES pc, lon, lat, date_str, days_margin, query, items, item,
          selected_time, assets, downloaded_paths, gets, files, result, error

vars == <<pc, lon, lat, date_str, days_margin, query, items, item,
          selected_time, assets, downloaded_paths, gets, files, result, error>>

(* ------------------------------ bounds --------------------------------- *)
MaxItems == 3

(* --------------------------- input domains ----------------------------- *)
SecondsPerDay == 24 * 60 * 60
Dates == {10, 11}
Margins == {-1, 0, 10}
Lons == {129}
Lats == {35}
Instants == {860400, 867600, 907200}

None == [kind |-> "none"]
Datetimes ==
  {None, [kind |-> "bad"]}
    \cup {[kind |-> "utc", t |-> t] : t \in Instants}
    \cup {[kind |-> "naive", t |-> t] : t \in {867600}}

S3Good == <<"s","3",":","/","/","b","/","k","/","f">>
S3NoKey == <<"s","3",":","/","/","b">>
HttpsHref == <<"h","t","t","p","s",":","/","/","h","/","f">>
Hrefs == {S3Good, S3NoKey, HttpsHref}

NoAsset == [present |-> FALSE]
Assets == {NoAsset} \cup {[present |-> TRUE, href |-> h] : h \in Hrefs}
AssetMaps == [vv : Assets, vh : Assets]

Statuses == {200, 404, 500}
Responses ==
  {[kind |-> "transport_error"]}
    \cup {[kind |-> "http", status |-> s, body |-> "complete"] : s \in Statuses}
    \cup {[kind |-> "http", status |-> 200, body |-> "broken"]}

(* ------------------------- the invocation's data ----------------------- *)
save_dir == "downloads"
delta == 2      \* 0.2 degrees, in tenths of a degree

NoItem == [id |-> 0, datetime |-> None]
NoQuery == [sent |-> FALSE]
NoResult == [kind |-> "none"]
NoError == [type |-> "none", at |-> "none"]
Unset == [kind |-> "unset"]

\* center_date: the parsed date at midnight UTC
center_date(d) == d * SecondsPerDay

\* strftime("%Y-%m-%dT00:00:00Z") / ("%Y-%m-%dT23:59:59Z") keep the day of the
\* shifted instant and replace the time of day
start_date(d, m) ==
  ((center_date(d) - m * SecondsPerDay) \div SecondsPerDay) * SecondsPerDay
end_date(d, m) ==
  ((center_date(d) + m * SecondsPerDay) \div SecondsPerDay) * SecondsPerDay
    + (23 * 3600 + 59 * 60 + 59)

bbox(lo, la) == <<lo * 10 - delta, la * 10 - delta, lo * 10 + delta, la * 10 + delta>>

SearchRequest(lo, la, d, m) ==
  [sent |-> TRUE, collections |-> <<"sentinel-1-grd">>, bbox |-> bbox(lo, la),
   start |-> start_date(d, m), end |-> end_date(d, m)]

\* the catalog's answer: records in response order, identified by position
Record(i, dt) == [id |-> i, datetime |-> dt]
CatalogResponses ==
  UNION {{[i \in 1..n |-> Record(i, f[i])] : f \in [1..n -> Datetimes]} : n \in 0..MaxItems}

Init ==
  /\ pc = "start"
  /\ lon \in Lons
  /\ lat \in Lats
  /\ date_str \in Dates
  /\ days_margin \in Margins
  /\ query = NoQuery
  /\ items = <<>>
  /\ item = NoItem
  /\ selected_time = None
  /\ assets = [vv |-> NoAsset, vh |-> NoAsset]
  /\ downloaded_paths = [ch \in {"VV", "VH"} |-> Unset]
  /\ gets = <<>>
  /\ files = {}
  /\ result = NoResult
  /\ error = NoError

\* Client.open / catalog.search / search.get_items raise
CatalogFails ==
  /\ pc = "start"
  /\ query' = SearchRequest(lon, lat, date_str, days_margin)
  /\ pc' = "raised"
  /\ error' = [type |-> "CatalogUnavailable", at |-> "catalog"]
  /\ UNCHANGED <<lon, lat, date_str, days_margin, items, item, selected_time,
                 assets, downloaded_paths, gets, files, result>>

\* the search succeeds and its items are materialised
Search ==
  /\ pc = "start"
  /\ query' = SearchRequest(lon, lat, date_str, days_margin)
  /\ \E its \in CatalogResponses : items' = its
  /\ pc' = "searched"
  /\ UNCHANGED <<lon, lat, date_str, days_margin, item, selected_time,
                 assets, downloaded_paths, gets, files, result, error>>

\* `if not items`
no_items_never(its) == FALSE
no_items(its) == Len(its) = 0

\* the message returned when the search found nothing
NoScenesFound(m, d, lo, la) ==
  [kind |-> "NoScenesFound", days_margin |-> m, date_str |-> d, lon |-> lo, lat |-> la]

ReturnNoScenes ==
  /\ pc = "searched"
  /\ no_items(items)
  /\ result' = NoScenesFound(days_margin, date_str, lon, lat)
  /\ pc' = "returned"
  /\ UNCHANGED <<lon, lat, date_str, days_margin, query, items, item, selected_time,
                 assets, downloaded_paths, gets, files, error>>

(* ------------------------- scene selection ----------------------------- *)
Abs(x) == IF x < 0 THEN -x ELSE x

\* float("inf") and finite floats, compared with <
Inf == [inf |-> TRUE, v |-> 0]
Finite(x) == [inf |-> FALSE, v |-> x]
KeyLess(a, b) == IF a.inf THEN FALSE ELSE IF b.inf THEN TRUE ELSE a.v < b.v

\* datetime.fromisoformat fails, or subtracting the aware center_date from a
\* naive datetime fails
get_time_diff_raises(it) == it.datetime.kind \in {"bad", "naive"}
get_time_diff_error(it) ==
  IF it.datetime.kind = "bad" THEN "ValueError" ELSE "TypeError"

get_time_diff_signed(it, d) ==
  IF it.datetime = None THEN Inf ELSE Finite(it.datetime.t - center_date(d))
get_time_diff_none_zero(it, d) ==
  IF it.datetime = None THEN Finite(0) ELSE Finite(Abs(it.datetime.t - center_date(d)))
get_time_diff(it, d) ==
  IF it.datetime = None THEN Inf ELSE Finite(Abs(it.datetime.t - center_date(d)))

\* list.sort(key=...) is stable: an element goes after every element whose key
\* is not greater than its own
RECURSIVE InsertByKey(_, _, _)
InsertByKey(x, s, d) ==
  IF s = <<>> THEN <<x>>
  ELSE IF KeyLess(get_time_diff(x, d), get_time_diff(Head(s), d))
       THEN <<x>> \o s
       ELSE <<Head(s)>> \o InsertByKey(x, Tail(s), d)

RECURSIVE SortByKey(_, _)
SortByKey(s, d) ==
  IF s = <<>> THEN <<>>
  ELSE InsertByKey(s[Len(s)], SortByKey(SubSeq(s, 1, Len(s) - 1), d), d)

FirstRaising(s) ==
  s[CHOOSE i \in 1..Len(s) :
      /\ get_time_diff_raises(s[i])
      /\ \A j \in 1..(i - 1) : ~get_time_diff_raises(s[j])]

\* items.sort(key=get_time_diff); item = items[0]; assets = item.assets
Select ==
  /\ pc = "searched"
  /\ ~no_items(items)
  /\ IF \E i \in 1..Len(items) : get_time_diff_raises(items[i])
     THEN /\ pc' = "raised"
          /\ error' = [type |-> get_time_diff_error(FirstRaising(items)), at |-> "select"]
          /\ UNCHANGED <<items, item, selected_time, assets>>
     ELSE IF items = <<>>
     THEN /\ pc' = "raised"
          /\ error' = [type |-> "IndexError", at |-> "select"]
          /\ UNCHANGED <<items, item, selected_time, assets>>
     ELSE /\ items' = SortByKey(items, date_str)
          /\ item' = items'[1]
          /\ selected_time' = item'.datetime
          /\ \E am \in AssetMaps : assets' = am
          /\ pc' = "vv"
          /\ UNCHANGED error
  /\ UNCHANGED <<lon, lat, date_str, days_margin, query, downloaded_paths, gets,
                 files, result>>

(* --------------------------- URL rewriting ----------------------------- *)
S3Scheme == <<"s","3",":","/","/">>
HttpsScheme == <<"h","t","t","p","s",":","/","/">>
S3Host == <<".","s","3",".","a","m","a","z","o","n","a","w","s",".","c","o","m","/">>

\* href.startswith(prefix)
startswith(href, prefix) ==
  /\ Len(href) >= Len(prefix)
  /\ SubSeq(href, 1, Len(prefix)) = prefix

\* str.split("/", 1): one part when there is no separator, else two
Separators(str) == {i \in 1..Len(str) : str[i] = "/"}
FirstSeparator(str) == CHOOSE i \in Separators(str) : \A j \in Separators(str) : i <= j
split_once(str) ==
  IF Separators(str) = {} THEN <<str>>
  ELSE <<SubSeq(str, 1, FirstSeparator(str) - 1),
         SubSeq(str, FirstSeparator(str) + 1, Len(str))>>

no_scheme(href) == SubSeq(href, Len(S3Scheme) + 1, Len(href))

\* `bucket, key = no_scheme.split("/", 1)` needs exactly two parts
s3_to_http_raises(href) ==
  startswith(href, S3Scheme) /\ Len(split_once(no_scheme(href))) # 2

s3_to_http(href) ==
  IF startswith(href, S3Scheme)
  THEN HttpsScheme \o split_once(no_scheme(href))[1] \o S3Host
         \o split_once(no_scheme(href))[2]
  ELSE href

(* ------------------------------ downloads ------------------------------ *)
Channels == {"VV", "VH"}
AssetKey(ch) == IF ch = "VV" THEN "vv" ELSE "vh"

\* os.path.join(save_dir, f"{item.id}_vv.tif")
Filename(id, ch) == [dir |-> save_dir, id |-> id, suffix |-> AssetKey(ch)]

PathOutcome(name) == [kind |-> "path", path |-> name]
AbsentOutcome(ch) == [kind |-> "absent", ch |-> ch]
FailedOutcome(status) == [kind |-> "failed", status |-> status]

\* open(name, "wb") creates or truncates the file; the chunks follow
WriteFile(fs, name, content) ==
  {f \in fs : f.name # name} \cup {[name |-> name, content |-> content]}

\* one channel: asset lookup, URL rewriting, GET, streaming to the file
Fetch(ch, after) ==
  IF ~assets[AssetKey(ch)].present
  THEN /\ downloaded_paths' = [downloaded_paths EXCEPT ![ch] = AbsentOutcome(ch)]
       /\ pc' = after
       /\ UNCHANGED <<gets, files, error>>
  ELSE IF s3_to_http_raises(assets[AssetKey(ch)].href)
  THEN /\ pc' = "raised"
       /\ error' = [type |-> "ValueError", at |-> ch]
       /\ UNCHANGED <<downloaded_paths, gets, files>>
  ELSE \E resp \in Responses :
         /\ gets' = Append(gets, [ch |-> ch,
                                  url |-> s3_to_http(assets[AssetKey(ch)].href),
                                  resp |-> resp])
         /\ IF resp.kind = "transport_error"
            THEN /\ pc' = "raised"
                 /\ error' = [type |-> "RequestException", at |-> ch]
                 /\ UNCHANGED <<downloaded_paths, files>>
            ELSE IF resp.status = 200
            THEN IF resp.body = "complete"
                 THEN /\ files' = WriteFile(files, Filename(item.id, ch), "complete")
                      /\ downloaded_paths' =
                           [downloaded_paths EXCEPT ![ch] = PathOutcome(Filename(item.id, ch))]
                      /\ pc' = after
                      /\ UNCHANGED error
                 ELSE /\ files' = WriteFile(files, Filename(item.id, ch), "partial")
                      /\ pc' = "raised"
                      /\ error' = [type |-> "RequestException", at |-> ch]
                      /\ UNCHANGED downloaded_paths
            ELSE /\ downloaded_paths' =
                      [downloaded_paths EXCEPT ![ch] = FailedOutcome(resp.status)]
                 /\ pc' = after
                 /\ UNCHANGED <<files, error>>

FetchVV ==
  /\ pc = "vv"
  /\ Fetch("VV", "vh")
  /\ UNCHANGED <<lon, lat, date_str, days_margin, query, items, item, selected_time,
                 assets, result>>

\* the VH branch taken only when the VV download did not fail
FetchVH_unless_VV_failed ==
  /\ pc = "vh"
  /\ IF downloaded_paths["VV"].kind = "failed"
     THEN /\ downloaded_paths' =
               [downloaded_paths EXCEPT !["VH"] = FailedOutcome(downloaded_paths["VV"].status)]
          /\ pc' = "summary"
          /\ UNCHANGED <<gets, files, error>>
     ELSE Fetch("VH", "summary")
  /\ UNCHANGED <<lon, lat, date_str, days_margin, query, items, item, selected_time,
                 assets, result>>

FetchVH ==
  /\ pc = "vh"
  /\ Fetch("VH", "summary")
  /\ UNCHANGED <<lon, lat, date_str, days_margin, query, items, item, selected_time,
                 assets, result>>

\* result_msg
Summary_VV_twice(paths, time) ==
  [kind |-> "Summary", VV |-> paths["VV"], VH |-> paths["VV"], time |-> time]
Summary(paths, time) ==
  [kind |-> "Summary", VV |-> paths["VV"], VH |-> paths["VH"], time |-> time]

ReturnSummary ==
  /\ pc = "summary"
  /\ result' = Summary(downloaded_paths, selected_time)
  /\ pc' = "returned"
  /\ UNCHANGED <<lon, lat, date_str, days_margin, query, items, item, selected_time,
                 assets, downloaded_paths, gets, files, error>>

Next ==
  \/ CatalogFails
  \/ Search
  \/ ReturnNoScenes
  \/ Select
  \/ FetchVV
  \/ FetchVH
  \/ ReturnSummary

Spec == Init /\ [][Next]_vars

(* ============================ properties =============================== *)
Other(ch) == IF ch = "VV" THEN "VH" ELSE "VV"
GetsOf(ch) == {i \in 1..Len(gets) : gets[i].ch = ch}
Selected == item # NoItem
\* the code has finished the branch of channel ch without raising in it
Handled(ch) ==
  /\ Selected
  /\ IF ch = "VV" THEN pc \in {"vh", "summary", "returned"} \/ (pc = "raised" /\ error.at = "VH")
     ELSE pc \in {"summary", "returned"}
\* the outcome a channel's own asset and own response call for
OwnOutcome(ch) ==
  IF ~assets[AssetKey(ch)].present THEN AbsentOutcome(ch)
  ELSE LET r == gets[CHOOSE i \in GetsOf(ch) : TRUE].resp
       IN IF r.status = 200 THEN PathOutcome(Filename(item.id, ch))
          ELSE FailedOutcome(r.status)

\* C1: a non-200 status on one channel gives that channel, and only that
\* channel, a failure outcome with that status; the other channel is still
\* attempted and its outcome is the one its own asset and response call for.
C1_ChannelFailureIsolated ==
  \A ch \in Channels : \A i \in GetsOf(ch) :
    (gets[i].resp.kind = "http" /\ gets[i].resp.status # 200) =>
      /\ downloaded_paths[ch] = FailedOutcome(gets[i].resp.status)
      /\ pc = "raised" => (ch = "VV" /\ error.at = "VH")
      /\ Handled(Other(ch)) =>
           /\ assets[AssetKey(Other(ch))].present => Cardinality(GetsOf(Other(ch))) = 1
           /\ downloaded_paths[Other(ch)] = OwnOutcome(Other(ch))

C1_Witness ==
  /\ pc = "returned"
  /\ downloaded_paths["VV"] = FailedOutcome(404)
  /\ downloaded_paths["VH"] = PathOutcome(Filename(item.id, "VH"))

\* C2: an empty catalog answer ends in the NoScenesFound message with the
\* requested date and coordinates; no scene is selected, no GET is issued and
\* no file is written.
C2_EmptyResultNoDownload ==
  (query.sent /\ items = <<>> /\ error.at # "catalog") =>
    /\ pc \in {"searched", "returned"}
    /\ pc = "returned" => result = [kind |-> "NoScenesFound", days_margin |-> days_margin,
                                    date_str |-> date_str, lon |-> lon, lat |-> lat]
    /\ ~Selected
    /\ gets = <<>>
    /\ files = {}

C2_Witness ==
  /\ pc = "returned"
  /\ items = <<>>
  /\ result.kind = "NoScenesFound"

\* C3: among timed records the selected scene minimises the distance to the
\* requested date at midnight UTC, and of the records at that minimal distance
\* it is the first in the order of the catalog response.
C3_NearestSelected ==
  (Selected /\ \A i \in 1..Len(items) : items[i].datetime.kind = "utc") =>
    /\ \E i \in 1..Len(items) : items[i] = item
    /\ \A i \in 1..Len(items) :
         LET di == Abs(items[i].datetime.t - date_str * SecondsPerDay)
             ds == Abs(item.datetime.t - date_str * SecondsPerDay)
         IN /\ ds <= di
            /\ ds = di => item.id <= items[i].id

C3_Witness ==
  /\ Selected
  /\ Len(items) = 3
  /\ item.id = 2
  /\ \A i \in 1..Len(items) : items[i].datetime.kind = "utc"
  /\ \E i \in 1..Len(items) :
       /\ items[i].id = 3
       /\ items[i].datetime.t # item.datetime.t
       /\ Abs(items[i].datetime.t - date_str * SecondsPerDay)
            = Abs(item.datetime.t - date_str * SecondsPerDay)

\* C4: a record without an acquisition instant is never the selected scene
\* when the catalog answer holds a record with one.
C4_UntimedNeverSelected ==
  (Selected /\ \E i \in 1..Len(items) : items[i].datetime.kind = "utc") =>
    item.datetime # None

C4_Witness ==
  /\ Selected
  /\ item.id > 1
  /\ item.datetime.kind = "utc"
  /\ \E i \in 1..Len(items) : items[i].id = 1 /\ items[i].datetime = None

\* C5: a channel missing from the asset map gets the absent outcome, no GET
\* and no file, and the other channel, present and answered with 200, ends
\* with its file path as outcome.
C5_AbsentChannelOtherSucceeds ==
  \A ch \in Channels :
    (Selected /\ pc # "vv" /\ ~assets[AssetKey(ch)].present) =>
      /\ GetsOf(ch) = {}
      /\ \A f \in files : f.name # Filename(item.id, ch)
      /\ Handled(ch) => downloaded_paths[ch] = AbsentOutcome(ch)
      /\ (\E i \in GetsOf(Other(ch)) :
            gets[i].resp.kind = "http" /\ gets[i].resp.status = 200) =>
           downloaded_paths[Other(ch)] = PathOutcome(Filename(item.id, Other(ch)))

\* C6: a bucket reference without a key is a download failure of its channel
\* only: a failure outcome in that channel's slot, and the invocation goes on
\* to the other channel and the summary.
C6_MalformedReferenceContained ==
  \A ch \in Channels :
    (/\ Selected
     /\ assets[AssetKey(ch)].present
     /\ s3_to_http_raises(assets[AssetKey(ch)].href)
     /\ IF ch = "VV" THEN pc # "vv" ELSE pc \notin {"vv", "vh"}) =>
      /\ downloaded_paths[ch].kind = "failed"
      /\ ~(pc = "raised" /\ error.at = ch)

\* C7: an invocation that raises does so because of the catalog; every other
\* ending is a returned outcome.
C7_RaisesOnlyOnCatalogFailure ==
  /\ pc = "raised" => error.at = "catalog"
  /\ pc = "returned" => result.kind \in {"NoScenesFound", "Summary"}

\* C8: a destination file exists only for a channel the selected scene
\* exposes and whose download got status 200 and its whole body.
C8_FileOnlyOnCompletedDownload ==
  \A f \in files :
    \E ch \in Channels :
      /\ f.name = Filename(item.id, ch)
      /\ assets[AssetKey(ch)].present
      /\ \E i \in GetsOf(ch) :
           /\ gets[i].resp.kind = "http"
           /\ gets[i].resp.status = 200
           /\ gets[i].resp.body = "complete"

\* C9: the temporal interval sent to the catalog has start <= end for every
\* date and every integer days_margin.
C9_IntervalOrdered ==
  query.sent => query.start <= query.end

\* C10: a returned summary holds, for each of VV and VH, exactly one outcome
\* of the kind its channel calls for (file path, absent marker, or failure
\* marker with the status code), and the selected scene's acquisition instant.
C10_SummaryComplete ==
  (pc = "returned" /\ result.kind = "Summary") =>
    /\ result.time = item.datetime
    /\ \A ch \in Channels :
         LET o == IF ch = "VV" THEN result.VV ELSE result.VH
         IN /\ o.kind \in {"path", "absent", "failed"}
            /\ o.kind = "absent" <=> ~assets[AssetKey(ch)].present
            /\ o.kind = "absent" => o = AbsentOutcome(ch)
            /\ o.kind = "path" =>
                 /\ o.path = Filename(item.id, ch)
                 /\ [name |-> o.path, content |-> "complete"] \in files
            /\ o.kind = "failed" =>
                 /\ o.status \in Statuses \ {200}
                 /\ \E i \in GetsOf(ch) : gets[i].resp = [kind |-> "http",
                                                         status |-> o.status,
                                                         body |-> "complete"]

C10_Witness ==
  /\ pc = "returned"
  /\ result.kind = "Summary"
  /\ result.VV.kind = "absent"
  /\ result.VH.kind = "failed"
  /\ result.time = None
====
